---- MODULE Spec2Model ----
(***************************************************************************)
(* Promotion rule engine: RuleMatcher (rule_engine/matcher.py), RuleLoader *)
(* (rule_engine/loader.py) and the reload path of the HTTP layer (app.py,  *)
(* promotion_evaluator.py).                                                *)
(*                                                                         *)
(* Python values are tagged records [t, n, s, l]: t is the type, n the     *)
(* numeric payload (int, float, bool), s the characters of a str, l the    *)
(* elements of a list.  A missing dict key is the value Absent.  Strings   *)
(* are sequences of one-character strings so that substring, prefix,       *)
(* lower(), strip(), float() and strptime() are computed, not looked up.   *)
(* Numbers are integers: the float payloads of the model are whole.  One   *)
(* int, PyHuge, stands for the ints too large for a float.                 *)
(***************************************************************************)
EXTENDS Integers, Sequences, FiniteSets, TLC

VARIABLES rules, clock, source, last, th, swaps, assigned, draw, metrics

vars == <<rules, clock, source, last, th, swaps, assigned, draw, metrics>>

-----------------------------------------------------------------------------
(* Python values *)

Absent == [t |-> "absent", n |-> 0, s |-> <<>>, l |-> <<>>]

PyNone == [t |-> "none", n |-> 0, s |-> <<>>, l |-> <<>>]

PyInt(k) == [t |-> "int", n |-> k, s |-> <<>>, l |-> <<>>]

PyFloat(k) == [t |-> "float", n |-> k, s |-> <<>>, l |-> <<>>]

PyBool(b) == [t |-> "bool", n |-> IF b THEN 1 ELSE 0, s |-> <<>>, l |-> <<>>]

PyStr(cs) == [t |-> "str", n |-> 0, s |-> cs, l |-> <<>>]

PyList(xs) == [t |-> "list", n |-> 0, s |-> <<>>, l |-> xs]

\* an int beyond the range of float (10 ** 400): float() of it raises OverflowError
PyHuge == [t |-> "hugeint", n |-> 0, s |-> <<>>, l |-> <<>>]

PyTrue == PyBool(TRUE)

PyFalse == PyBool(FALSE)

IsNumber(v) == v.t \in {"int", "float", "bool"}

\* dict.get(key): a missing key reads as None
Get(v) == IF v.t = "absent" THEN PyNone ELSE v

\* dict.get(key, default)
GetDefault(v, d) == IF v.t = "absent" THEN d ELSE v

\* truth value of a Python object (bool(x))
Truthy(v) ==
    CASE v.t \in {"absent", "none"} -> FALSE
      [] IsNumber(v) -> v.n # 0
      [] v.t = "str" -> Len(v.s) > 0
      [] v.t = "list" -> Len(v.l) > 0
      [] OTHER -> TRUE

\* == on values that are not lists
ScalarEq(a, b) ==
    IF IsNumber(a) /\ IsNumber(b) THEN a.n = b.n
    ELSE a.t = b.t /\ a.t # "list" /\ a.s = b.s

\* Python ==
PyEq(a, b) ==
    IF a.t = "list" /\ b.t = "list"
    THEN /\ Len(a.l) = Len(b.l)
         /\ \A i \in 1..Len(a.l) : ScalarEq(a.l[i], b.l[i])
    ELSE ScalarEq(a, b)

-----------------------------------------------------------------------------
(* Strings *)

Digits == <<"0", "1", "2", "3", "4", "5", "6", "7", "8", "9">>

IsDigit(c) == \E i \in 1..Len(Digits) : Digits[i] = c

DigitVal(c) == (CHOOSE i \in 1..Len(Digits) : Digits[i] = c) - 1

UpperLetters == <<"A", "B", "C", "D", "E", "F", "G", "H", "I", "J", "K", "L", "M",
                  "N", "O", "P", "Q", "R", "S", "T", "U", "V", "W", "X", "Y", "Z">>

LowerLetters == <<"a", "b", "c", "d", "e", "f", "g", "h", "i", "j", "k", "l", "m",
                  "n", "o", "p", "q", "r", "s", "t", "u", "v", "w", "x", "y", "z">>

LowerChar(c) ==
    IF \E i \in 1..Len(UpperLetters) : UpperLetters[i] = c
    THEN LowerLetters[CHOOSE i \in 1..Len(UpperLetters) : UpperLetters[i] = c]
    ELSE c

\* str.lower()
Lower(cs) == [i \in 1..Len(cs) |-> LowerChar(cs[i])]

\* str.strip() leaves nothing: every character is white space
IsBlank(cs) == \A i \in 1..Len(cs) : cs[i] = " "

\* sub in s, for two str
IsSubstring(sub, s) ==
    \E k \in 0..(Len(s) - Len(sub)) : \A i \in 1..Len(sub) : s[k + i] = sub[i]

RECURSIVE DigitsToNat(_)
DigitsToNat(cs) ==
    IF Len(cs) = 0 THEN 0
    ELSE 10 * DigitsToNat(SubSeq(cs, 1, Len(cs) - 1)) + DigitVal(cs[Len(cs)])

AllDigits(cs) == Len(cs) > 0 /\ \A i \in 1..Len(cs) : IsDigit(cs[i])

\* float(v): [ok, exc, n].  A str converts when it is a run of decimal digits
\* (the strings of the model carry no sign, point, exponent, inf or nan).
ToFloat(v) ==
    CASE IsNumber(v) -> [ok |-> TRUE, exc |-> "", n |-> v.n]
      [] v.t = "hugeint" -> [ok |-> FALSE, exc |-> "OverflowError", n |-> 0]
      [] v.t = "str" ->
            IF AllDigits(v.s) THEN [ok |-> TRUE, exc |-> "", n |-> DigitsToNat(v.s)]
            ELSE [ok |-> FALSE, exc |-> "ValueError", n |-> 0]
      [] OTHER -> [ok |-> FALSE, exc |-> "TypeError", n |-> 0]

\* re.compile(p) succeeds.  Patterns of the model are literal characters, "."
\* and "("; an unmatched "(" is the malformed pattern.
RegexValid(p) == \A i \in 1..Len(p) : p[i] # "("

\* re.match(p, s) is not None, for a valid pattern: a match anchored at the start
RegexMatch(p, s) ==
    /\ Len(p) <= Len(s)
    /\ \A i \in 1..Len(p) : p[i] = "." \/ p[i] = s[i]

-----------------------------------------------------------------------------
(* RuleMatcher: condition evaluation.  A check returns "T", "F" or the name  *)
(* of the exception it raises.                                              *)

Res(b) == IF b THEN "T" ELSE "F"

\* x in container (list membership, str containment); TypeError otherwise
PyIn(x, container) ==
    CASE container.t = "list" ->
            Res(\E i \in 1..Len(container.l) : ScalarEq(container.l[i], x)
                                               \/ PyEq(container.l[i], x))
      [] container.t = "str" ->
            IF x.t = "str" THEN Res(IsSubstring(x.s, container.s)) ELSE "TypeError"
      [] OTHER -> "TypeError"

Negate(r) == IF r = "T" THEN "F" ELSE IF r = "F" THEN "T" ELSE r

OrderingOps == {"gt", "gte", "lt", "lte"}

Compare(op, a, b) ==
    CASE op = "gt" -> a > b
      [] op = "gte" -> a >= b
      [] op = "lt" -> a < b
      [] op = "lte" -> a <= b

\* _apply_operator past its first check: actual is not None
ApplyToValue(op, actual, expected) ==
    IF op \in OrderingOps
    THEN LET fa == ToFloat(actual)
             fe == ToFloat(expected)
             caught(c) == IF c.exc \in {"ValueError", "TypeError"} THEN "F" ELSE c.exc
         IN IF ~fa.ok THEN caught(fa)
            ELSE IF ~fe.ok THEN caught(fe)
            ELSE Res(Compare(op, fa.n, fe.n))
    ELSE CASE op = "eq" -> Res(PyEq(actual, expected))
           [] op = "ne" -> Res(~PyEq(actual, expected))
           [] op = "in" -> PyIn(actual, expected)
           [] op = "not_in" -> Negate(PyIn(actual, expected))
           [] op = "contains" ->
                 IF actual.t \in {"list", "str"} THEN PyIn(expected, actual) ELSE "F"
           [] op = "regex" ->
                 IF actual.t # "str" THEN "F"
                 ELSE IF expected.t # "str" THEN "TypeError"
                 ELSE IF ~RegexValid(expected.s) THEN "re.error"
                 ELSE Res(RegexMatch(expected.s, actual.s))
           [] OTHER -> "F"

ApplyOpenWorld(op, actual, expected) == ApplyToValue(op, actual, expected)

_apply_operator(op, actual, expected) ==
    IF actual.t = "none" THEN "F" ELSE ApplyToValue(op, actual, expected)

\* str(n) for an int n
RECURSIVE IntToStr(_)
IntToStr(n) ==
    IF n < 0 THEN <<"-">> \o IntToStr(0 - n)
    ELSE IF n < 10 THEN <<Digits[n + 1]>>
    ELSE IntToStr(n \div 10) \o <<Digits[(n % 10) + 1]>>

\* str(v) for a value that is not a list; repr(v) when quoted
ScalarStr(v, quoted) ==
    CASE v.t = "str" -> IF quoted THEN <<"'">> \o v.s \o <<"'">> ELSE v.s
      [] v.t = "int" -> IntToStr(v.n)
      [] v.t = "float" -> IntToStr(v.n) \o <<".", "0">>
      [] v.t = "bool" -> IF v.n = 1 THEN <<"T","r","u","e">> ELSE <<"F","a","l","s","e">>
      [] v.t = "hugeint" -> <<"1">> \o [i \in 1..400 |-> "0"]
      [] OTHER -> <<"N","o","n","e">>

RECURSIVE JoinRepr(_, _)
JoinRepr(xs, i) ==
    IF i > Len(xs) THEN <<>>
    ELSE (IF i > 1 THEN <<",", " ">> ELSE <<>>) \o ScalarStr(xs[i], TRUE) \o JoinRepr(xs, i + 1)

\* str(v)
StrOf(v) ==
    IF v.t = "list" THEN <<"[">> \o JoinRepr(v.l, 1) \o <<"]">> ELSE ScalarStr(v, FALSE)

\* models.Condition.evaluate with operator op and value `value`, on the
\* attribute player_value of the player (None when the attribute is missing)
Condition_evaluate(op, player_value, value) ==
    LET caught(r) == IF r \in {"ValueError", "TypeError"} THEN "F" ELSE r
    IN IF player_value.t = "none" THEN "F"
       ELSE CASE op = "eq" -> Res(PyEq(player_value, value))
              [] op = "ne" -> Res(~PyEq(player_value, value))
              [] op \in OrderingOps ->
                    LET fa == ToFloat(player_value)
                        fe == ToFloat(value)
                    IN IF ~fa.ok THEN caught(fa.exc)
                       ELSE IF ~fe.ok THEN caught(fe.exc)
                       ELSE Res(Compare(op, fa.n, fe.n))
              [] op = "in" -> caught(PyIn(player_value, value))
              [] op = "not_in" -> caught(Negate(PyIn(player_value, value)))
              [] op = "contains" ->
                    Res(IsSubstring(Lower(StrOf(value)), Lower(StrOf(player_value))))
              [] op = "regex" ->
                    IF value.t # "str" THEN "F"
                    ELSE IF ~RegexValid(value.s) THEN "re.error"
                    ELSE Res(RegexMatch(value.s, StrOf(player_value)))
              [] OTHER -> "F"

\* a condition of a rule: {op: expected, ...} or a direct value
OpCond(op, expected) ==
    [isdict |-> TRUE, ops |-> <<[op |-> op, expected |-> expected]>>, value |-> PyNone]

ValueCond(v) == [isdict |-> FALSE, ops |-> <<>>, value |-> v]

\* player_data.get(field)
PlayerGet(player_data, field) ==
    IF field \in DOMAIN player_data THEN Get(player_data[field]) ELSE PyNone

RECURSIVE MatchOps(_, _, _)
MatchOps(ops, i, player_value) ==
    IF i > Len(ops) THEN "T"
    ELSE LET r == _apply_operator(ops[i].op, player_value, ops[i].expected)
         IN IF r = "T" THEN MatchOps(ops, i + 1, player_value) ELSE r

MatchCondition(condition, player_value) ==
    IF condition.isdict THEN MatchOps(condition.ops, 1, player_value)
    ELSE Res(PyEq(player_value, condition.value))

RECURSIVE MatchItemsAny(_, _, _)
MatchItemsAny(items, i, player_data) ==
    IF i > Len(items) THEN Res(Len(items) = 0)
    ELSE LET r == MatchCondition(items[i].cond, PlayerGet(player_data, items[i].field))
         IN IF r = "F" THEN MatchItemsAny(items, i + 1, player_data) ELSE r

RECURSIVE MatchItems(_, _, _)
MatchItems(items, i, player_data) ==
    IF i > Len(items) THEN "T"
    ELSE LET r == MatchCondition(items[i].cond, PlayerGet(player_data, items[i].field))
         IN IF r = "T" THEN MatchItems(items, i + 1, player_data) ELSE r

\* conditions: [kind, items]; kind "dict", or "none"/"other" for a value without items()
_match_conditions(conditions, player_data) ==
    IF conditions.kind # "dict" THEN "AttributeError"
    ELSE MatchItems(conditions.items, 1, player_data)

-----------------------------------------------------------------------------
(* RuleMatcher: time window *)

DayNames == << <<"M","o","n","d","a","y">>, <<"T","u","e","s","d","a","y">>,
               <<"W","e","d","n","e","s","d","a","y">>, <<"T","h","u","r","s","d","a","y">>,
               <<"F","r","i","d","a","y">>, <<"S","a","t","u","r","d","a","y">>,
               <<"S","u","n","d","a","y">> >>

\* now.strftime("%A"), for now.weekday() = wd (0 is Monday)
StrftimeA(wd) == DayNames[wd + 1]

\* position of the first ":" of cs, 0 when there is none
ColonAt(cs) ==
    IF \E i \in 1..Len(cs) : cs[i] = ":"
    THEN CHOOSE i \in 1..Len(cs) : cs[i] = ":" /\ \A j \in 1..(i - 1) : cs[j] # ":"
    ELSE 0

\* datetime.strptime(cs, "%H:%M").time(): [ok, secs]; not ok is ValueError
StrptimeHM(cs) ==
    LET c == ColonAt(cs)
        hh == SubSeq(cs, 1, c - 1)
        mm == SubSeq(cs, c + 1, Len(cs))
        good == /\ c > 0
                /\ AllDigits(hh) /\ Len(hh) <= 2 /\ DigitsToNat(hh) <= 23
                /\ AllDigits(mm) /\ Len(mm) <= 2 /\ DigitsToNat(mm) <= 59
    IN IF good THEN [ok |-> TRUE, secs |-> DigitsToNat(hh) * 3600 + DigitsToNat(mm) * 60]
       ELSE [ok |-> FALSE, secs |-> 0]

\* now.time(), as seconds since midnight
TimeOfDay(now) == now.h * 3600 + now.m * 60 + now.s

\* [d.lower() for d in days]: the lowered entries, or the exception
DaysLowered(days) ==
    CASE days.t = "list" ->
            IF \E i \in 1..Len(days.l) : days.l[i].t # "str"
            THEN [exc |-> "AttributeError", names |-> {}]
            ELSE [exc |-> "", names |-> {Lower(days.l[i].s) : i \in 1..Len(days.l)}]
      [] days.t = "str" ->
            [exc |-> "", names |-> {<<LowerChar(days.s[i])>> : i \in 1..Len(days.s)}]
      [] OTHER -> [exc |-> "TypeError", names |-> {}]

\* the bound check of one of start_time/end_time: "T" passes, "F" returns False
TimeBound(bound, now, isStart) ==
    IF ~Truthy(bound) THEN "T"
    ELSE IF bound.t # "str" THEN "TypeError"
    ELSE LET p == StrptimeHM(bound.s)
         IN IF ~p.ok THEN "ValueError"
            ELSE IF isStart THEN Res(~(TimeOfDay(now) < p.secs))
            ELSE Res(~(TimeOfDay(now) > p.secs))

NoWindow == [kind |-> "absent", start_time |-> Absent, end_time |-> Absent,
             days_of_week |-> Absent]

Window(start, end, days) ==
    [kind |-> "dict", start_time |-> start, end_time |-> end, days_of_week |-> days]

\* `not time_window`
WindowFalsy(tw) ==
    \/ tw.kind \in {"absent", "none"}
    \/ tw.kind = "dict" /\ tw.start_time.t = "absent" /\ tw.end_time.t = "absent"
                        /\ tw.days_of_week.t = "absent"

_within_time_window(time_window, now) ==
    IF WindowFalsy(time_window) THEN "T"
    ELSE IF time_window.kind # "dict" THEN "AttributeError"
    ELSE LET days == Get(time_window.days_of_week)
             start == Get(time_window.start_time)
             end == Get(time_window.end_time)
             low == IF Truthy(days) THEN DaysLowered(days) ELSE [exc |-> "", names |-> {}]
             dayOk == ~Truthy(days) \/ Lower(StrftimeA(now.wd)) \in low.names
             s == TimeBound(start, now, TRUE)
         IN IF low.exc # "" THEN low.exc
            ELSE IF ~dayOk THEN "F"
            ELSE IF s # "T" THEN s
            ELSE TimeBound(end, now, FALSE)

\* the order of the characters of an HH:MM string: the digits, then ":"
CharRank(c) == IF IsDigit(c) THEN DigitVal(c) ELSE 10

\* a <= b for strings of digits and colons, from position i on
RECURSIVE StrLeq(_, _, _)
StrLeq(a, b, i) ==
    IF i > Len(a) THEN TRUE
    ELSE IF i > Len(b) THEN FALSE
    ELSE IF CharRank(a[i]) # CharRank(b[i]) THEN CharRank(a[i]) < CharRank(b[i])
    ELSE StrLeq(a, b, i + 1)

\* now.strftime('%H:%M')
StrftimeHM(now) ==
    <<Digits[(now.h \div 10) + 1], Digits[(now.h % 10) + 1], ":",
      Digits[(now.m \div 10) + 1], Digits[(now.m % 10) + 1]>>

\* models.TimeWindow.is_active(now), for bounds that are None or strings
TimeWindow_is_active(tw, now) ==
    LET days == Get(tw.days_of_week)
        start == Get(tw.start_time)
        end == Get(tw.end_time)
        low == IF Truthy(days) THEN DaysLowered(days) ELSE [exc |-> "", names |-> {}]
        current_time_str == StrftimeHM(now)
    IN IF low.exc # "" THEN low.exc
       ELSE IF Truthy(days) /\ Lower(StrftimeA(now.wd)) \notin low.names THEN "F"
       ELSE IF Truthy(start) /\ Truthy(end)
       THEN IF StrLeq(start.s, end.s, 1)
            THEN Res(StrLeq(start.s, current_time_str, 1)
                        /\ StrLeq(current_time_str, end.s, 1))
            ELSE Res(StrLeq(start.s, current_time_str, 1)
                        \/ StrLeq(current_time_str, end.s, 1))
       ELSE "T"

-----------------------------------------------------------------------------
(* RuleMatcher: A/B bucket *)

\* int(hashlib.sha256(cs.encode()).hexdigest(), 16) % 100, tabulated for the
\* identifiers of the model from the digests hashlib computes
Sha256Mod100(cs) ==
    CASE cs = <<"p","1">> -> 46
      [] cs = <<"p","2">> -> 99
      [] cs = <<"u","7">> -> 64
      [] cs = <<"p","9">> -> 58
      [] cs = <<>> -> 49

BucketSalted(player_id) ==
    IF player_id.t # "str" THEN [exc |-> "AttributeError", bucket |-> 0]
    ELSE [exc |-> "",
          bucket |-> (Sha256Mod100(player_id.s)
                        + (IF rules.kind = "list" THEN Len(rules.items) ELSE 0)) % 100]

\* [exc, bucket]
_get_ab_bucket(player_id) ==
    IF player_id.t # "str" THEN [exc |-> "AttributeError", bucket |-> 0]
    ELSE [exc |-> "", bucket |-> Sha256Mod100(player_id.s) % 100]

NoBucket == [kind |-> "absent", percentage |-> Absent, s |-> <<>>]

BucketDict(pct) == [kind |-> "dict", percentage |-> pct, s |-> <<>>]

\* `not ab_bucket`
BucketFalsy(ab) ==
    \/ ab.kind \in {"absent", "none"}
    \/ ab.kind = "dict" /\ ab.percentage.t = "absent"
    \/ ab.kind = "str" /\ Len(ab.s) = 0

GateInclusive(ab_bucket, player_id) ==
    IF BucketFalsy(ab_bucket) THEN "T"
    ELSE Res(_get_ab_bucket(player_id).bucket <= ab_bucket.percentage.n)

_within_ab_bucket(ab_bucket, player_id) ==
    IF BucketFalsy(ab_bucket) THEN "T"
    ELSE LET b == _get_ab_bucket(player_id)
             pct == GetDefault(ab_bucket.percentage, PyInt(0))
         IN IF b.exc # "" THEN b.exc
            ELSE IF ab_bucket.kind # "dict" THEN "AttributeError"
            ELSE IF pct.t = "hugeint" THEN "T"
            ELSE IF ~IsNumber(pct) THEN "TypeError"
            ELSE Res(b.bucket < pct.n)

-----------------------------------------------------------------------------
(* Rules, player records, RuleMatcher.evaluate *)

NoPromotion ==
    [kind |-> "absent", id |-> Absent, type |-> Absent, amount |-> Absent,
     multiplier |-> Absent, duration_hours |-> Absent]

\* a promotion dict with id, type and amount; id and type are character sequences
Promo(id, type, amount) ==
    [kind |-> "dict", id |-> PyStr(id), type |-> PyStr(type), amount |-> amount,
     multiplier |-> Absent, duration_hours |-> Absent]

Conds(items) == [kind |-> "dict", items |-> items]

On(field, cond) == [field |-> field, cond |-> cond]

\* a rule dict with the four required keys and `enabled`; id is a character sequence
Rule(id, priority, enabled, conditions, promotion) ==
    [kind |-> "dict", id |-> PyStr(id), priority |-> PyInt(priority), enabled |-> enabled,
     description |-> Absent, conditions |-> Conds(conditions), promotion |-> promotion,
     weight |-> Absent, ab_bucket |-> NoBucket, time_window |-> NoWindow]

NumericFields == {"level", "total_spent", "days_since_last_purchase"}

Player(pid, level, tier, country) ==
    [player_id |-> pid, level |-> level, spend_tier |-> tier, country |-> country,
     total_spent |-> Absent, days_since_last_purchase |-> Absent]

\* `not player_data`: the empty dict
PlayerFalsy(player_data) == \A f \in DOMAIN player_data : player_data[f].t = "absent"

HasKey(player_data, f) == f \in DOMAIN player_data /\ player_data[f].t # "absent"

\* float() raises past `except (ValueError, TypeError)` on a numeric field
NormalizeOverflows(player_data) ==
    \E f \in NumericFields \cap DOMAIN player_data :
        ToFloat(player_data[f]).exc = "OverflowError"

\* the normalized copy, when float() does not raise past the except clause
_normalize_player_data(player_data) ==
    [f \in DOMAIN player_data |->
        IF f \in NumericFields /\ player_data[f].t # "absent"
        THEN LET c == ToFloat(player_data[f])
             IN IF c.ok THEN PyFloat(c.n) ELSE PyFloat(0)
        ELSE player_data[f]]

\* the conversions written into the caller's record instead of a copy
NormalizedInPlace(player_data) == _normalize_player_data(player_data)

\* the caller's record when evaluate has ended: _normalize_player_data writes
\* the converted fields into player_data.copy(), and evaluate only reads the
\* record it was given
CallerRecord(player_data) == player_data

\* rule.get("conditions", {})
RuleConditions(rule) ==
    IF rule.conditions.kind = "absent" THEN Conds(<<>>) ELSE rule.conditions

IsEnabledAlways(rule) == TRUE

\* rule.get("enabled", True)
IsEnabled(rule) == Truthy(GetDefault(rule.enabled, PyTrue))

\* one pass of the loop body of evaluate over `rule`: "keep" appends the rule,
\* "skip" continues, anything else is the exception raised
RuleStep(rule, player_data, now) ==
    IF rule.kind # "dict" THEN "AttributeError"
    ELSE IF ~IsEnabled(rule) THEN "skip"
    ELSE LET c == _match_conditions(RuleConditions(rule), player_data)
         IN IF c = "F" THEN "skip" ELSE IF c # "T" THEN c
            ELSE LET w == _within_time_window(rule.time_window, now)
                 IN IF w = "F" THEN "skip" ELSE IF w # "T" THEN w
                    ELSE LET a == _within_ab_bucket(rule.ab_bucket, Get(player_data.player_id))
                         IN IF a = "F" THEN "skip" ELSE IF a # "T" THEN a ELSE "keep"

RECURSIVE EvalLoopFirst(_, _, _, _, _)
EvalLoopFirst(items, i, applicable, player_data, now) ==
    IF i > Len(items) \/ Len(applicable) > 0 THEN [exc |-> "", applicable |-> applicable]
    ELSE LET r == RuleStep(items[i], player_data, now)
         IN IF r = "keep"
            THEN EvalLoopFirst(items, i + 1, Append(applicable, items[i]), player_data, now)
            ELSE IF r = "skip"
            THEN EvalLoopFirst(items, i + 1, applicable, player_data, now)
            ELSE [exc |-> r, applicable |-> <<>>]

RECURSIVE EvalLoop(_, _, _, _, _)
EvalLoop(items, i, applicable, player_data, now) ==
    IF i > Len(items) THEN [exc |-> "", applicable |-> applicable]
    ELSE LET r == RuleStep(items[i], player_data, now)
         IN IF r = "keep"
            THEN EvalLoop(items, i + 1, Append(applicable, items[i]), player_data, now)
            ELSE IF r = "skip"
            THEN EvalLoop(items, i + 1, applicable, player_data, now)
            ELSE [exc |-> r, applicable |-> <<>>]

\* what a call did: raised exc, or returned None, a list of promotions, or (the
\* loader) a list of rules
Raise(e) ==
    [status |-> "raise", exc |-> e, isNone |-> FALSE, promos |-> <<>>, loaded |-> <<>>]

ReturnNone ==
    [status |-> "return", exc |-> "", isNone |-> TRUE, promos |-> <<>>, loaded |-> <<>>]

ReturnList(ps) ==
    [status |-> "return", exc |-> "", isNone |-> FALSE, promos |-> ps, loaded |-> <<>>]

ReturnRules(rs) ==
    [status |-> "return", exc |-> "", isNone |-> FALSE, promos |-> <<>>, loaded |-> rs]

Priority(rule) == IF IsNumber(rule.priority) THEN rule.priority.n ELSE 0

AggregateWinner(applicable) ==
    IF Len(applicable) = 0 THEN ReturnNone
    ELSE LET w == CHOOSE i \in 1..Len(applicable) :
                    \A j \in 1..Len(applicable) :
                        \/ Priority(applicable[i]) > Priority(applicable[j])
                        \/ Priority(applicable[i]) = Priority(applicable[j]) /\ i <= j
         IN ReturnList(<<applicable[w].promotion>>)

AggregateEmptyList(applicable) ==
    ReturnList([i \in 1..Len(applicable) |-> applicable[i].promotion])

\* the draws of random.uniform(0, total_weight) are the multiples of
\* total_weight / DrawSteps, both ends included
DrawSteps == 4

\* rule.get('weight', 1.0)
WeightOf(rule) == GetDefault(rule.weight, PyFloat(1))

\* sum(rule.get('weight', 1.0) for rule in rules), from position i on
RECURSIVE TotalWeight(_, _)
TotalWeight(rs, i) ==
    IF i > Len(rs) THEN 0 ELSE WeightOf(rs[i]).n + TotalWeight(rs, i + 1)

\* the loop of _apply_weighted_selection from position i on, for the draw
\* rand = total_weight * u / DrawSteps: the first rule with rand <= cumulative,
\* or rules[-1]
RECURSIVE SelectLoop(_, _, _, _, _)
SelectLoop(rs, i, cumulative, total_weight, u) ==
    IF i > Len(rs) THEN rs[Len(rs)]
    ELSE LET c == cumulative + WeightOf(rs[i]).n
         IN IF total_weight * u <= DrawSteps * c THEN rs[i]
            ELSE SelectLoop(rs, i + 1, c, total_weight, u)

\* RuleMatcher._apply_weighted_selection(rules) on the draw u, for weights
\* that are numbers within the float range or are not numbers at all
_apply_weighted_selection(rs, u) ==
    IF \E i \in 1..Len(rs) : ~IsNumber(WeightOf(rs[i])) THEN Raise("TypeError")
    ELSE LET total_weight == TotalWeight(rs, 1)
         IN IF total_weight <= 0 THEN ReturnNone
            ELSE ReturnRules(<<SelectLoop(rs, 1, 0, total_weight, u)>>)

\* the aggregation handing the applicable rules to the weighted selection
AggregateWeighted(applicable) ==
    LET s == _apply_weighted_selection(applicable, draw)
    IN IF s.status = "return" /\ ~s.isNone THEN ReturnList(<<s.loaded[1].promotion>>)
       ELSE ReturnNone

\* [rule.get("promotion") for rule in applicable_rules], or None
Aggregate(applicable) ==
    IF Len(applicable) = 0 THEN ReturnNone
    ELSE ReturnList([i \in 1..Len(applicable) |-> applicable[i].promotion])

\* the matcher's rule attribute: never assigned, a list, or another object
Unset == [kind |-> "unset", items |-> <<>>]

RuleList(items) == [kind |-> "list", items |-> items]

NotAList(kind) == [kind |-> kind, items |-> <<>>]

MissingIdOnlyEmpty(player_data) == PlayerFalsy(player_data)

\* not player_data or 'player_id' not in player_data
MissingId(player_data) == PlayerFalsy(player_data) \/ ~HasKey(player_data, "player_id")

\* RuleMatcher.evaluate(player_data) on the rule attribute rs at clock value now
evaluate(rs, player_data, now) ==
    IF MissingId(player_data) THEN Raise("ValueError")
    ELSE IF NormalizeOverflows(player_data) THEN Raise("OverflowError")
    ELSE LET normalized_data == _normalize_player_data(player_data)
         IN IF rs.kind = "unset" THEN Raise("AttributeError")
            ELSE IF rs.kind # "list" THEN Raise("TypeError")
            ELSE LET loop == EvalLoop(rs.items, 1, <<>>, player_data, now)
                 IN IF loop.exc # "" THEN Raise(loop.exc) ELSE Aggregate(loop.applicable)

-----------------------------------------------------------------------------
(* RuleLoader: validation.  A validator returns "" or the exception it raises *)

Present(v) == v.t # "absent"

ValidOperators == {"eq", "ne", "gt", "gte", "lt", "lte", "in", "not_in", "contains", "regex"}

\* isinstance(v, str) and v.strip()
NonEmptyStr(v) == v.t = "str" /\ ~IsBlank(v.s)

\* isinstance(v, (int, float)); bool is a subclass of int
IsIntOrFloat(v) == v.t \in {"int", "hugeint", "float", "bool"}

\* isinstance(v, int)
IsInt(v) == v.t \in {"int", "hugeint", "bool"}

ConditionValid(cond) ==
    cond.isdict =>
        /\ Len(cond.ops) = 1
        /\ cond.ops[1].op \in ValidOperators
        /\ cond.ops[1].op \in {"in", "not_in"} => cond.ops[1].expected.t = "list"

ConditionsUnchecked(conditions) == ""

_validate_conditions(conditions) ==
    IF \A i \in 1..Len(conditions.items) : ConditionValid(conditions.items[i].cond)
    THEN "" ELSE "ValueError"

_validate_promotion(promotion) ==
    IF /\ Present(promotion.id) /\ Present(promotion.type)
       /\ NonEmptyStr(promotion.id) /\ NonEmptyStr(promotion.type)
       /\ \A v \in {promotion.amount, promotion.multiplier, promotion.duration_hours} :
             Present(v) => IsIntOrFloat(v)
    THEN "" ELSE "ValueError"

ValidDays == {Lower(DayNames[i]) : i \in 1..Len(DayNames)}

\* for day in days: if day.lower() not in valid_days: raise ValueError
RECURSIVE ValidateDays(_, _)
ValidateDays(days, i) ==
    IF i > Len(days) THEN ""
    ELSE IF days[i].t # "str" THEN "AttributeError"
    ELSE IF Lower(days[i].s) \notin ValidDays THEN "ValueError"
    ELSE ValidateDays(days, i + 1)

TimeFieldValid(v) == Present(v) => (v.t = "str" /\ StrptimeHM(v.s).ok)

_validate_time_window(time_window) ==
    IF time_window.kind # "dict" THEN "ValueError"
    ELSE IF ~TimeFieldValid(time_window.start_time) \/ ~TimeFieldValid(time_window.end_time)
    THEN "ValueError"
    ELSE IF ~Present(time_window.days_of_week) THEN ""
    ELSE IF time_window.days_of_week.t # "list" THEN "ValueError"
    ELSE ValidateDays(time_window.days_of_week.l, 1)

DescriptionPrefix == <<"P","r","o","m","o","t","i","o","n"," ","r","u","l","e"," ">>

\* rule.setdefault('enabled', True); rule.setdefault('description', ...)
WithDefaults(rule) ==
    [rule EXCEPT !.enabled = GetDefault(rule.enabled, PyTrue),
                 !.description = GetDefault(rule.description,
                                            PyStr(DescriptionPrefix \o rule.id.s))]

\* [exc, rule]: exc "" and the rule with its defaults, or the exception raised
_validate_rule(rule) ==
    LET bad(e) == [exc |-> e, rule |-> rule]
    IN IF rule.kind # "dict" THEN bad("ValueError")
       ELSE IF \/ ~Present(rule.id) \/ ~Present(rule.priority)
               \/ rule.conditions.kind = "absent" \/ rule.promotion.kind = "absent"
       THEN bad("ValueError")
       ELSE IF ~NonEmptyStr(rule.id) THEN bad("ValueError")
       ELSE IF ~IsInt(rule.priority) THEN bad("ValueError")
       ELSE IF rule.conditions.kind # "dict" THEN bad("ValueError")
       ELSE IF _validate_conditions(rule.conditions) # "" THEN bad("ValueError")
       ELSE IF rule.promotion.kind # "dict" THEN bad("ValueError")
       ELSE IF _validate_promotion(rule.promotion) # "" THEN bad("ValueError")
       ELSE IF Present(rule.weight) /\ ~IsIntOrFloat(rule.weight) THEN bad("ValueError")
       ELSE IF rule.ab_bucket.kind \notin {"absent", "str"} THEN bad("ValueError")
       ELSE IF rule.time_window.kind # "absent"
               /\ _validate_time_window(rule.time_window) # ""
       THEN bad(_validate_time_window(rule.time_window))
       ELSE [exc |-> "", rule |-> WithDefaults(rule)]

\* the loop of load_rules over the candidates: ValueError skips the candidate,
\* any other exception leaves the loop
RECURSIVE ValidateAll(_, _, _)
ValidateAll(candidates, i, validated_rules) ==
    IF i > Len(candidates) THEN [exc |-> "", rules |-> validated_rules]
    ELSE LET v == _validate_rule(candidates[i])
         IN IF v.exc = ""
            THEN ValidateAll(candidates, i + 1, Append(validated_rules, v.rule))
            ELSE IF v.exc = "ValueError"
            THEN ValidateAll(candidates, i + 1, validated_rules)
            ELSE [exc |-> v.exc, rules |-> <<>>]

\* the configuration source: no file, a file that is not YAML, an empty file
\* (safe_load gives None), or a mapping with or without a `rules` entry
NoSource == [kind |-> "missing", hasRules |-> FALSE, rules |-> Unset]

Malformed == [kind |-> "malformed", hasRules |-> FALSE, rules |-> Unset]

EmptyFile == [kind |-> "empty", hasRules |-> FALSE, rules |-> Unset]

DocNoRules == [kind |-> "doc", hasRules |-> FALSE, rules |-> Unset]

Doc(rs) == [kind |-> "doc", hasRules |-> TRUE, rules |-> rs]

\* load_rules from the isinstance check on: rs is the value of `rules`
LoadCandidates(rs) ==
    IF rs.kind # "list" THEN Raise("ValueError")
    ELSE LET v == ValidateAll(rs.items, 1, <<>>)
         IN IF v.exc # "" THEN Raise(v.exc) ELSE ReturnRules(v.rules)

LoadOrEmpty(src) ==
    IF src.kind # "doc" THEN ReturnRules(<<>>)
    ELSE LoadCandidates(IF src.hasRules THEN src.rules ELSE RuleList(<<>>))

LoadRequiresRules(src) ==
    IF src.kind = "missing" THEN Raise("FileNotFoundError")
    ELSE IF src.kind = "malformed" THEN Raise("YAMLError")
    ELSE IF src.kind = "empty" THEN Raise("TypeError")
    ELSE IF ~src.hasRules THEN Raise("KeyError")
    ELSE LoadCandidates(src.rules)

\* RuleLoader.load_rules() on the source src
load_rules(src) ==
    IF src.kind = "missing" THEN Raise("FileNotFoundError")
    ELSE IF src.kind = "malformed" THEN Raise("YAMLError")
    ELSE IF src.kind = "empty" THEN ReturnRules(<<>>)
    ELSE LoadCandidates(IF src.hasRules THEN src.rules ELSE RuleList(<<>>))

-----------------------------------------------------------------------------
(* MetricsCollector (metrices.py).  Every public method runs under the lock  *)
(* of the collector from its first statement to its last, so a method is one *)
(* step; an exception leaves the with block with the writes made so far.     *)

BucketNames == {"0-10ms", "10-50ms", "50-100ms", "100-500ms", "500ms+"}

\* MetricsCollector(): the state after __init__
MetricsCollector ==
    [total_evaluations |-> 0, hits |-> 0, misses |-> 0, total_latency_ms |-> 0,
     rule_hit_counts |-> <<>>, promotion_type_counts |-> <<>>,
     country_distribution |-> <<>>, spend_tier_distribution |-> <<>>,
     validation_errors |-> 0, evaluation_errors |-> 0, rule_loading_errors |-> 0,
     latency_buckets |-> [b \in BucketNames |-> 0],
     hourly_stats |-> <<>>]

-----------------------------------------------------------------------------
(* Bounds and the values the operations draw their inputs from *)

\* longest rule list handed to set_rules
MaxRules == 2

SeqsUpTo(S, n) == UNION {[1..k -> S] : k \in 0..n}

Instant(wd, h, m, s) == [wd |-> wd, h |-> h, m |-> m, s |-> s]

\* values of the injected time provider
Mon1000 == Instant(0, 10, 0, 0)

Mon1200 == Instant(0, 12, 0, 0)

Mon1800 == Instant(0, 18, 0, 0)

Tue2330 == Instant(1, 23, 30, 0)

Sun0100 == Instant(6, 1, 0, 0)

Instants == {Mon1200, Mon1800}

S_vip == <<"v","i","p">>

S_gold == <<"g","o","l","d">>

S_US == <<"U","S">>

S_abc == <<"a","b","c">>

S_credits == <<"b","o","n","u","s","_","c","r","e","d","i","t","s">>

S_spins == <<"f","r","e","e","_","s","p","i","n","s">>

\* the promotion id of the rule named id
Bonus(id) == id \o <<"_","b","o","n","u","s">>

T(h1, h2, m1, m2) == PyStr(<<h1, h2, ":", m1, m2>>)

Always == PyTrue

R_vip ==
    Rule(S_vip, 100, Always,
         <<On("level", OpCond("gte", PyInt(20))), On("spend_tier", ValueCond(PyStr(S_vip)))>>,
         Promo(Bonus(S_vip), S_credits, PyFloat(500)))

R_default ==
    Rule(<<"d","e","f">>, 10, Absent, <<On("level", OpCond("gte", PyInt(1)))>>,
         Promo(Bonus(<<"d","e","f">>), S_credits, PyFloat(25)))

R_disabled ==
    Rule(<<"o","f","f">>, 200, PyFalse, <<On("level", OpCond("gte", PyInt(1)))>>,
         Promo(Bonus(<<"o","f","f">>), S_credits, PyFloat(1000)))

R_newbie ==
    Rule(<<"n","e","w">>, 50, Always, <<On("level", OpCond("lte", PyInt(5)))>>,
         Promo(Bonus(<<"n","e","w">>), S_spins, PyInt(10)))

R_night ==
    [Rule(<<"n","i","g","h","t">>, 30, Always, <<>>,
          Promo(Bonus(<<"n","i","g","h","t">>), S_spins, PyInt(2)))
        EXCEPT !.time_window = Window(T("2","2","0","0"), T("0","2","0","0"), Absent)]

R_office ==
    [Rule(<<"d","a","y">>, 40, Always, <<>>,
          Promo(Bonus(<<"d","a","y">>), S_credits, PyInt(5)))
        EXCEPT !.time_window =
            Window(T("0","9","0","0"), T("1","7","0","0"),
                   PyList(<<PyStr(<<"M","o","n","d","a","y">>)>>))]

R_ab ==
    [Rule(<<"a","b">>, 60, Always, <<>>, Promo(Bonus(<<"a","b">>), S_credits, PyInt(100)))
        EXCEPT !.ab_bucket = BucketDict(PyInt(50))]

R_regex ==
    Rule(<<"r","e">>, 20, Always, <<On("country", OpCond("regex", PyStr(<<"(">>)))>>,
         Promo(Bonus(<<"r","e">>), S_credits, PyInt(1)))

\* a direct-equality condition whose expected value is null (`country: null`)
R_nullcond ==
    Rule(<<"n","u","l">>, 70, Always, <<On("country", ValueCond(PyNone))>>,
         Promo(Bonus(<<"n","u","l">>), S_credits, PyInt(7)))

RuleCatalogue == {R_vip, R_default, R_disabled, R_newbie, R_office, R_ab, R_regex}

RuleSets == SeqsUpTo(RuleCatalogue, MaxRules)

P_vip == Player(PyStr(<<"p","1">>), PyInt(25), PyStr(S_vip), PyStr(S_US))

P_gold == Player(PyStr(<<"p","2">>), PyInt(25), PyStr(S_gold), Absent)

P_new == Player(PyStr(<<"u","7">>), PyInt(3), Absent, Absent)

P_badlevel == Player(PyStr(<<"p","9">>), PyStr(S_abc), Absent, PyNone)

P_intid == Player(PyInt(7), PyInt(25), PyStr(S_vip), PyStr(S_US))

P_nullid == Player(PyNone, PyStr(<<"2","5">>), Absent, Absent)

P_noid == Player(Absent, PyInt(25), PyStr(S_vip), PyStr(S_US))

P_empty == Player(Absent, Absent, Absent, Absent)

Players == {P_vip, P_gold, P_new, P_badlevel, P_intid, P_nullid, P_noid, P_empty}

-----------------------------------------------------------------------------
(* State *)

NoCall == [op |-> "none", input |-> P_empty, out |-> ReturnNone, before |-> Unset]

Call(op, input, out, before) == [op |-> op, input |-> input, out |-> out, before |-> before]

Idle == [pc |-> "idle", input |-> P_empty, iter |-> <<>>, idx |-> 0, applicable |-> <<>>,
         out |-> ReturnNone, seen |-> {}]

InitWith(instants) ==
    /\ rules = Unset
    /\ clock \in instants
    /\ source = NoSource
    /\ last = NoCall
    /\ th = Idle
    /\ swaps = 0
    /\ assigned = {}
    /\ draw = 0
    /\ metrics = MetricsCollector

\* RuleMatcher.set_rules(rs), rs drawn from sets
SetRulesFrom(sets) ==
    \E rs \in sets :
        /\ rules' = RuleList(rs)
        /\ last' = Call("set_rules", P_empty, ReturnNone, Unset)
        /\ UNCHANGED <<clock, source, th, swaps, assigned, draw, metrics>>

\* RuleMatcher.evaluate(pd), start to end, pd drawn from players; the call
\* record keeps the caller's record as passed (before) and as the call left
\* it (input).  The time
\* provider answers every read of one call with the same instant (a pinned
\* provider, or a call shorter than the clock's step).
EvaluateFrom(players) ==
    \E pd \in players :
        /\ last' = Call("evaluate", CallerRecord(pd), evaluate(rules, pd, clock), pd)
        /\ UNCHANGED <<rules, clock, source, th, swaps, assigned, draw, metrics>>

\* the time provider moves to another instant
TickTo(instants) ==
    \E t \in instants :
        /\ t # clock
        /\ clock' = t
        /\ last' = NoCall
        /\ UNCHANGED <<rules, source, th, swaps, assigned, draw, metrics>>

Init == InitWith(Instants)

SetRules == SetRulesFrom(RuleSets)

Evaluate == EvaluateFrom(Players)

Tick == TickTo(Instants)

Next == SetRules \/ Evaluate \/ Tick

Spec == Init /\ [][Next]_vars

-----------------------------------------------------------------------------
(* Properties of RuleMatcher.evaluate *)

\* the last call was evaluate on a record that holds player_id, over a rule list
Evaluated == last.op = "evaluate" /\ HasKey(last.input, "player_id") /\ rules.kind = "list"

\* the last result lists the promotion
InResult(promotion) == \E k \in 1..Len(last.out.promos) : last.out.promos[k] = promotion

\* a rule is applicable: enabled, every condition passes, the time window is
\* active and the A/B gate admits the identifier
Applicable(rule, player_data, now) ==
    /\ rule.kind = "dict"
    /\ Truthy(GetDefault(rule.enabled, PyTrue))
    /\ _match_conditions(RuleConditions(rule), player_data) = "T"
    /\ _within_time_window(rule.time_window, now) = "T"
    /\ _within_ab_bucket(rule.ab_bucket, Get(player_data.player_id)) = "T"

\* positions of the applicable rules of a list, ascending
ApplicableAt(items, player_data, now) ==
    {i \in 1..Len(items) : Applicable(items[i], player_data, now)}

RECURSIVE PromosOf(_, _, _)
PromosOf(items, idxs, i) ==
    IF i > Len(items) THEN <<>>
    ELSE IF i \in idxs THEN <<items[i].promotion>> \o PromosOf(items, idxs, i + 1)
    ELSE PromosOf(items, idxs, i + 1)

C2_MissingIdRaises ==
    (last.op = "evaluate" /\ ~HasKey(last.input, "player_id")) =>
        last.out = Raise("ValueError")

\* a record with other fields but no player_id was evaluated over a rule list
\* one of whose rules it would otherwise satisfy
C2_Witness ==
    /\ last.op = "evaluate" /\ last.input = P_noid
    /\ rules.kind = "list" /\ Len(rules.items) > 0
    /\ \E i \in 1..Len(rules.items) :
          _match_conditions(RuleConditions(rules.items[i]), last.input) = "T"
    /\ last.out.status = "raise"

\* C3: evaluate never raises for a record that holds player_id
C3_NeverRaises == Evaluated => last.out.status = "return"

\* C5: the conditions are evaluated against the normalized record: the result is
\* the one the normalized record gives
C5_ConditionsSeeNormalized ==
    Evaluated => last.out = evaluate(rules, _normalize_player_data(last.input), clock)

\* C7: a rule with enabled false contributes no promotion to any result
C7_DisabledNeverContributes ==
    (Evaluated /\ last.out.status = "return") =>
        \A i \in 1..Len(rules.items) :
            ~Truthy(GetDefault(rules.items[i].enabled, PyTrue)) =>
                \A k \in 1..Len(last.out.promos) :
                    last.out.promos[k] # rules.items[i].promotion

\* a disabled rule whose conditions, window and gate all pass was evaluated
C7_Witness ==
    /\ Evaluated /\ last.out.status = "return"
    /\ \E i \in 1..Len(rules.items) :
          /\ ~Truthy(GetDefault(rules.items[i].enabled, PyTrue))
          /\ Applicable([rules.items[i] EXCEPT !.enabled = PyTrue], last.input, clock)

\* C8: a returned result is None or a non-empty list, and it is None exactly
\* when no rule is applicable
C8_NoneOrNonEmpty ==
    (Evaluated /\ last.out.status = "return") =>
        /\ last.out.isNone <=> ApplicableAt(rules.items, last.input, clock) = {}
        /\ ~last.out.isNone => Len(last.out.promos) > 0
        /\ last.out.isNone => Len(last.out.promos) = 0

\* evaluate returned None over a non-empty rule list
C8_Witness ==
    /\ Evaluated /\ last.out.status = "return" /\ last.out.isNone
    /\ Len(rules.items) > 0

\* the k-th field condition of a rule, on its own, is satisfied by the record
Satisfied(rule, k, player_data) ==
    MatchCondition(rule.conditions.items[k].cond,
                   PlayerGet(player_data, rule.conditions.items[k].field)) = "T"

\* C17: the conditions of a rule are AND-combined: a rule with a field
\* condition the record does not satisfy contributes no promotion to any
\* result, whatever its other conditions give
C17_OneFailedConditionExcludes ==
    (Evaluated /\ last.out.status = "return") =>
        \A i \in 1..Len(rules.items) :
            (\E k \in 1..Len(rules.items[i].conditions.items) :
                ~Satisfied(rules.items[i], k, last.input))
            => ~InResult(rules.items[i].promotion)

\* a rule with two conditions was evaluated on a record that satisfies the
\* first and not the second
C17_Witness ==
    /\ Evaluated /\ last.out.status = "return"
    /\ \E i \in 1..Len(rules.items) :
          /\ Len(rules.items[i].conditions.items) = 2
          /\ Satisfied(rules.items[i], 1, last.input)
          /\ ~Satisfied(rules.items[i], 2, last.input)
          /\ IsEnabled(rules.items[i])

C29_NewMatcherReturnsNoMatch ==
    (last.op = "evaluate" /\ HasKey(last.input, "player_id") /\ rules = Unset)
    => last.out = ReturnNone

\* a sequence without its i-th element
RemoveAt(seq, i) == SubSeq(seq, 1, i - 1) \o SubSeq(seq, i + 1, Len(seq))

\* a returned result without its k-th promotion: None when nothing is left
ResultWithout(out, k) ==
    IF Len(out.promos) <= 1 THEN ReturnNone ELSE ReturnList(RemoveAt(out.promos, k))

-----------------------------------------------------------------------------
(* The matcher over rules with time windows, at instants around their        *)
(* bounds, and over a rule whose condition expects null                      *)

Mon170030 == Instant(0, 17, 0, 30)

TimeInstants == {Mon1000, Mon1200, Mon170030, Mon1800, Tue2330, Sun0100}

TimeRuleSets == SeqsUpTo({R_night, R_office, R_default, R_nullcond}, MaxRules)

TimePlayers == {P_vip, P_new, P_noid}

Monday == PyList(<<PyStr(<<"M","o","n","d","a","y">>)>>)

\* windows with one bound, with and without a weekday list, and the windows
\* of the rules
Windows ==
    {Window(T("0","9","0","0"), Absent, Absent), Window(Absent, T("1","7","0","0"), Absent),
     Window(T("0","9","0","0"), Absent, Monday), Window(Absent, T("1","7","0","0"), Monday),
     R_office.time_window, R_night.time_window}

\* RuleMatcher._within_time_window(tw) at the provider's instant
WithinTimeWindow ==
    \E tw \in Windows :
        /\ last' = Call("_within_time_window", tw, _within_time_window(tw, clock), Unset)
        /\ UNCHANGED <<rules, clock, source, th, swaps, assigned, draw, metrics>>

\* TimeWindow(start_time, end_time, days_of_week).is_active(now)
IsActive ==
    \E tw \in Windows :
        /\ last' = Call("is_active", tw, TimeWindow_is_active(tw, clock), Unset)
        /\ UNCHANGED <<rules, clock, source, th, swaps, assigned, draw, metrics>>

NextTime ==
    \/ SetRulesFrom(TimeRuleSets)
    \/ EvaluateFrom(TimePlayers)
    \/ TickTo(TimeInstants)
    \/ WithinTimeWindow
    \/ IsActive

SpecTime == InitWith(TimeInstants) /\ [][NextTime]_vars

\* the window gives start and end as HH:MM strings with start later than end
WrapsMidnight(tw) ==
    /\ tw.kind = "dict"
    /\ tw.start_time.t = "str" /\ StrptimeHM(tw.start_time.s).ok
    /\ tw.end_time.t = "str" /\ StrptimeHM(tw.end_time.s).ok
    /\ StrptimeHM(tw.start_time.s).secs > StrptimeHM(tw.end_time.s).secs

\* the current time of day is at or after start, or at or before end
WrapActive(tw, now) ==
    \/ TimeOfDay(now) >= StrptimeHM(tw.start_time.s).secs
    \/ TimeOfDay(now) <= StrptimeHM(tw.end_time.s).secs

\* C4: a rule whose window wraps past midnight (start later than end), and which
\* is otherwise applicable, contributes its promotion exactly when the current
\* time of day is >= start or <= end
C4_WrapAroundActive ==
    (Evaluated /\ last.out.status = "return") =>
        \A i \in 1..Len(rules.items) :
            (/\ WrapsMidnight(rules.items[i].time_window)
             /\ Applicable([rules.items[i] EXCEPT !.time_window = NoWindow],
                           last.input, clock))
            => (InResult(rules.items[i].promotion)
                    <=> WrapActive(rules.items[i].time_window, clock))

\* C23: a rule with a condition on a field that the record lacks, or holds as
\* None, contributes no promotion, whether the condition is a single-operator
\* mapping or a direct-equality value, an expected value of null included
C23_AbsentFieldNeverApplies ==
    (Evaluated /\ last.out.status = "return") =>
        \A i \in 1..Len(rules.items) :
            (\E k \in 1..Len(rules.items[i].conditions.items) :
                PlayerGet(last.input, rules.items[i].conditions.items[k].field).t = "none")
            => ~InResult(rules.items[i].promotion)

\* the window gives start and end as HH:MM strings with start not later than end
SameDay(tw) ==
    /\ tw.kind = "dict"
    /\ tw.start_time.t = "str" /\ StrptimeHM(tw.start_time.s).ok
    /\ tw.end_time.t = "str" /\ StrptimeHM(tw.end_time.s).ok
    /\ StrptimeHM(tw.start_time.s).secs <= StrptimeHM(tw.end_time.s).secs

\* the weekday of now is one of the window's days, when it names days
WeekdayAdmits(tw, now) ==
    tw.days_of_week.t = "list" =>
        \E i \in 1..Len(tw.days_of_week.l) :
            Lower(tw.days_of_week.l[i].s) = Lower(StrftimeA(now.wd))

\* start <= HH:MM of now <= end: the seconds of now do not count
MinuteActive(tw, now) ==
    /\ StrptimeHM(tw.start_time.s).secs <= now.h * 3600 + now.m * 60
    /\ now.h * 3600 + now.m * 60 <= StrptimeHM(tw.end_time.s).secs

\* C14: a rule whose window has start <= end, and which is otherwise
\* applicable, contributes its promotion exactly when the weekday is admitted
\* and start <= current HH:MM <= end, so at every instant of the end minute
\* (17:00:30 for end 17:00); window 09:00-17:00 is active at 12:00, not at 18:00
C14_ActiveThroughEndMinute ==
    (Evaluated /\ last.out.status = "return") =>
        \A i \in 1..Len(rules.items) :
            (/\ SameDay(rules.items[i].time_window)
             /\ Applicable([rules.items[i] EXCEPT !.time_window = NoWindow],
                           last.input, clock))
            => (InResult(rules.items[i].promotion)
                    <=> (/\ WeekdayAdmits(rules.items[i].time_window, clock)
                         /\ MinuteActive(rules.items[i].time_window, clock)))

\* the last call asked one of the two implementations about a window
WindowAsked == last.op \in {"_within_time_window", "is_active"}

\* the window gives exactly one of start and end, as an HH:MM string
OnlyStart(tw) == tw.start_time.t = "str" /\ tw.end_time.t = "absent"

OnlyEnd(tw) == tw.start_time.t = "absent" /\ tw.end_time.t = "str"

\* C26: when a window gives only one of start and end, that bound alone gates
\* activity, subject to the weekday gate: with only start the window is active
\* exactly when the current time is >= start, with only end exactly when it is
\* <= end; RuleMatcher._within_time_window and TimeWindow.is_active both
\* answer so, and so agree
C26_SingleBoundGates ==
    (WindowAsked /\ (OnlyStart(last.input) \/ OnlyEnd(last.input))) =>
        /\ last.out = "T" <=>
              /\ WeekdayAdmits(last.input, clock)
              /\ OnlyStart(last.input) =>
                    TimeOfDay(clock) >= StrptimeHM(last.input.start_time.s).secs
              /\ OnlyEnd(last.input) =>
                    TimeOfDay(clock) <= StrptimeHM(last.input.end_time.s).secs
        /\ _within_time_window(last.input, clock) = TimeWindow_is_active(last.input, clock)

-----------------------------------------------------------------------------
(* RuleLoader.load_rules over configuration sources *)

\* candidate rules as they come out of the YAML document
K_nopromo == [R_default EXCEPT !.promotion = NoPromotion]

K_badop ==
    Rule(<<"b","a","d">>, 50, Absent, <<On("level", OpCond("invalid_op", PyInt(10)))>>,
         Promo(Bonus(<<"b","a","d">>), S_credits, Absent))

K_badday ==
    [Rule(<<"w","d">>, 5, Absent, <<>>, Promo(Bonus(<<"w","d">>), S_credits, Absent))
        EXCEPT !.time_window = Window(Absent, Absent, PyList(<<PyInt(1)>>))]

K_notdict == [R_default EXCEPT !.kind = "other"]

K_abdict == [R_ab EXCEPT !.enabled = Absent]

K_vip == [R_vip EXCEPT !.enabled = Absent]

\* `ab_bucket: control`
K_abstr ==
    [R_ab EXCEPT !.id = PyStr(<<"a","b","s">>), !.enabled = Absent,
                 !.ab_bucket = [kind |-> "str", percentage |-> Absent,
                                s |-> <<"c","o","n","t","r","o","l">>]]

\* `weight: -1`
K_negweight == [R_default EXCEPT !.id = PyStr(<<"n","e","g">>), !.weight = PyInt(0 - 1)]

Candidates ==
    {K_vip, R_default, R_office, K_nopromo, K_badop, K_badday, K_notdict, K_abdict,
     K_abstr, K_negweight}

Sources ==
    {NoSource, Malformed, EmptyFile, DocNoRules, Doc(NotAList("none")), Doc(NotAList("int"))}
        \cup {Doc(RuleList(rs)) : rs \in SeqsUpTo(Candidates, MaxRules)}

\* the configuration file is written, replaced or removed
WriteSourceFrom(sources) ==
    \E s \in sources :
        /\ s # source
        /\ source' = s
        /\ last' = NoCall
        /\ UNCHANGED <<rules, clock, th, swaps, assigned, draw, metrics>>

\* RuleLoader.load_rules()
LoadRules ==
    /\ last' = Call("load_rules", P_empty, load_rules(source), Unset)
    /\ UNCHANGED <<rules, clock, source, th, swaps, assigned, draw, metrics>>

NextLoad == WriteSourceFrom(Sources) \/ LoadRules

SpecLoad == Init /\ [][NextLoad]_vars

\* the last call was load_rules on a document with a list of candidate rules
LoadedList ==
    /\ last.op = "load_rules"
    /\ source.kind = "doc" /\ source.hasRules /\ source.rules.kind = "list"

RECURSIVE Accepted(_, _)
Accepted(candidates, i) ==
    IF i > Len(candidates) THEN <<>>
    ELSE IF _validate_rule(candidates[i]).exc = ""
    THEN <<_validate_rule(candidates[i]).rule>> \o Accepted(candidates, i + 1)
    ELSE Accepted(candidates, i + 1)

\* C6: load_rules on a list of candidates raises nothing and returns exactly
\* the candidates that pass validation, in configuration order; a candidate that
\* fails validation for any reason is skipped
C6_InvalidSkipped ==
    LoadedList => last.out = ReturnRules(Accepted(source.rules.items, 1))

\* the rules the last load_rules call returned
Loaded == last.out.loaded

\* the records with a string player_id that the loaded rules are evaluated on
StringIdPlayers == {P_vip, P_new}

\* the candidate's A/B spec is a mapping exposing a numeric percentage, and
\* the candidate passes every other check of the loader
GateableCandidate(c) ==
    /\ c.kind = "dict" /\ c.ab_bucket.kind = "dict" /\ IsNumber(c.ab_bucket.percentage)
    /\ _validate_rule([c EXCEPT !.ab_bucket = NoBucket]).exc = ""

\* C22: every rule load_rules accepts is evaluated without raising for every
\* record with a string player_id: the A/B spec shape that passes validation
\* is the shape the matcher's gate reads, and a candidate whose spec the
\* gate can read (a mapping exposing a percentage) is not rejected
C22_LoadedRulesEvaluate ==
    (LoadedList /\ last.out.status = "return") =>
        /\ \A pd \in StringIdPlayers :
              evaluate(RuleList(Loaded), pd, clock).status = "return"
        /\ \A i \in 1..Len(source.rules.items) :
              GateableCandidate(source.rules.items[i])
                  => \E k \in 1..Len(Loaded) : Loaded[k].id = source.rules.items[i].id

\* what the claim requires of a condition, a promotion and a rule
WellFormedCondition(cond) ==
    cond.isdict =>
        /\ Len(cond.ops) = 1
        /\ cond.ops[1].op \in
              {"eq", "ne", "gt", "gte", "lt", "lte", "in", "not_in", "contains", "regex"}
        /\ cond.ops[1].op \in {"in", "not_in"} => cond.ops[1].expected.t = "list"

WellFormedPromotion(promotion) ==
    /\ promotion.kind = "dict"
    /\ promotion.id.t = "str" /\ ~IsBlank(promotion.id.s)
    /\ promotion.type.t = "str" /\ ~IsBlank(promotion.type.s)
    /\ \A v \in {promotion.amount, promotion.multiplier, promotion.duration_hours} :
          v.t \in {"absent", "int", "hugeint", "float", "bool"}

WellFormed(rule) ==
    /\ rule.kind = "dict"
    /\ rule.id.t = "str" /\ ~IsBlank(rule.id.s)
    /\ rule.priority.t \in {"int", "hugeint", "bool"}
    /\ rule.conditions.kind = "dict"
    /\ \A i \in 1..Len(rule.conditions.items) :
          WellFormedCondition(rule.conditions.items[i].cond)
    /\ WellFormedPromotion(rule.promotion)

C25_LoadedWeightsNonNegative ==
    (last.op = "load_rules" /\ last.out.status = "return") =>
        \A k \in 1..Len(Loaded) :
            Present(Loaded[k].weight) =>
                (IsIntOrFloat(Loaded[k].weight) /\ Loaded[k].weight.n >= 0)

\* C18: load_rules raises FileNotFoundError when the source does not exist and
\* yaml.YAMLError when it is not well-formed YAML; in both cases it returns no
\* rule list, not even an empty one
C18_MissingOrMalformedRaises ==
    last.op = "load_rules" =>
        /\ source.kind = "missing" => last.out = Raise("FileNotFoundError")
        /\ source.kind = "malformed" => last.out = Raise("YAMLError")
        /\ source.kind \in {"missing", "malformed"} =>
              (last.out.status = "raise" /\ last.out.loaded = <<>>)

\* load_rules ran on a source that is not well-formed YAML and raised
C18_Witness ==
    /\ last.op = "load_rules" /\ source = Malformed
    /\ last.out.status = "raise"

C20_LoadedIdsDistinct ==
    (last.op = "load_rules" /\ last.out.status = "return") =>
        \A i, j \in 1..Len(last.out.loaded) :
            i # j => last.out.loaded[i].id # last.out.loaded[j].id

-----------------------------------------------------------------------------
(* The reload path of the HTTP layer: app.reload_rules *)

\* promotion_evaluator.load_rules_from_yaml(): [exc, value]; value is data['rules']
load_rules_from_yaml(src) ==
    IF src.kind = "missing" THEN [exc |-> "FileNotFoundError", value |-> Unset]
    ELSE IF src.kind = "malformed" THEN [exc |-> "YAMLError", value |-> Unset]
    ELSE IF src.kind = "empty" THEN [exc |-> "TypeError", value |-> Unset]
    ELSE IF ~src.hasRules THEN [exc |-> "KeyError", value |-> Unset]
    ELSE [exc |-> "", value |-> src.rules]

ReloadRuleSets == SeqsUpTo({R_vip, R_default, R_newbie}, MaxRules)

ReloadSources ==
    {NoSource, Malformed, EmptyFile, DocNoRules, Doc(NotAList("none")), Doc(NotAList("int"))}
        \cup {Doc(RuleList(rs)) : rs \in ReloadRuleSets}

ReloadPlayers == {P_vip, P_new}

StartupRules == <<R_vip, R_default>>

\* the module body of app.py has run: the matcher holds the rules of the source
InitReload ==
    /\ source = Doc(RuleList(StartupRules))
    /\ rules = RuleList(StartupRules)
    /\ clock = Mon1200
    /\ last = NoCall
    /\ th = Idle
    /\ swaps = 0
    /\ assigned = {}
    /\ draw = 0
    /\ metrics = MetricsCollector

\* app.reload_rules(): new_rules = load_rules_from_yaml(); matcher.set_rules(new_rules)
Reload ==
    LET new_rules == load_rules_from_yaml(source)
    IN /\ rules' = IF new_rules.exc # "" THEN rules ELSE new_rules.value
       /\ last' = Call("reload", P_empty,
                       IF new_rules.exc # "" THEN Raise(new_rules.exc) ELSE ReturnNone,
                       rules)
       /\ UNCHANGED <<clock, source, th, swaps, assigned, draw, metrics>>

NextReload == WriteSourceFrom(ReloadSources) \/ Reload \/ EvaluateFrom(ReloadPlayers)

SpecReload == InitReload /\ [][NextReload]_vars

\* the source is missing, malformed, or gives no usable list of rules
LoadStepFails(src) ==
    \/ src.kind \in {"missing", "malformed", "empty"}
    \/ src.kind = "doc" /\ (~src.hasRules \/ src.rules.kind # "list")

\* C9: after a reload whose load step fails, the matcher holds the rule set it
\* held before and every input evaluates as before
C9_FailedReloadKeepsRules ==
    (last.op = "reload" /\ LoadStepFails(source)) =>
        /\ rules = last.before
        /\ \A pd \in ReloadPlayers :
              evaluate(rules, pd, clock) = evaluate(last.before, pd, clock)

-----------------------------------------------------------------------------
(* evaluate in steps, with set_rules running between them.  th is the frame  *)
(* of the evaluate call in flight: iter is the list object the for loop      *)
(* iterates (self.rules as read when the loop starts), idx the position of   *)
(* its iterator; seen collects the values self.rules had during the call.    *)

\* set_rules calls in one behaviour
MaxSwaps == 2

ConcRuleSets == SeqsUpTo({R_vip, R_default}, MaxRules)

ConcPlayers == {P_vip, P_new, P_noid}

Frame(pc, input, iter, idx, applicable, out, seen) ==
    [pc |-> pc, input |-> input, iter |-> iter, idx |-> idx, applicable |-> applicable,
     out |-> out, seen |-> seen]

NextRuleLive(frame) ==
    IF rules.kind = "list" /\ frame.idx <= Len(rules.items)
    THEN rules.items[frame.idx] ELSE frame.iter[frame.idx]

\* next(iterator): the element of the list the loop was started on
NextRule(frame) == frame.iter[frame.idx]

\* evaluate is called: the player_id check and the normalization
EvalBegin ==
    \E pd \in ConcPlayers :
        /\ th.pc = "idle"
        /\ th' = IF MissingId(pd)
                 THEN Frame("done", pd, <<>>, 0, <<>>, Raise("ValueError"), {rules})
                 ELSE IF NormalizeOverflows(pd)
                 THEN Frame("done", pd, <<>>, 0, <<>>, Raise("OverflowError"), {rules})
                 ELSE Frame("loop", pd, <<>>, 0, <<>>, ReturnNone, {rules})
        /\ last' = NoCall
        /\ UNCHANGED <<rules, clock, source, swaps, assigned, draw, metrics>>

\* `for rule in self.rules`: self.rules is read and its iterator created
EvalIter ==
    /\ th.pc = "loop"
    /\ th' = IF rules.kind = "unset"
             THEN [th EXCEPT !.pc = "done", !.out = Raise("AttributeError")]
             ELSE IF rules.kind # "list"
             THEN [th EXCEPT !.pc = "done", !.out = Raise("TypeError")]
             ELSE [th EXCEPT !.pc = "step", !.iter = rules.items, !.idx = 1]
    /\ UNCHANGED <<rules, clock, source, last, swaps, assigned, draw, metrics>>

\* one iteration of the loop, or its end and the aggregation
EvalStep ==
    /\ th.pc = "step"
    /\ th' = IF th.idx > Len(th.iter)
             THEN [th EXCEPT !.pc = "done", !.out = Aggregate(th.applicable)]
             ELSE LET rule == NextRule(th)
                      r == RuleStep(rule, th.input, clock)
                  IN IF r = "keep"
                     THEN [th EXCEPT !.idx = th.idx + 1,
                                     !.applicable = Append(th.applicable, rule)]
                     ELSE IF r = "skip" THEN [th EXCEPT !.idx = th.idx + 1]
                     ELSE [th EXCEPT !.pc = "done", !.out = Raise(r)]
    /\ UNCHANGED <<rules, clock, source, last, swaps, assigned, draw, metrics>>

\* the call returns to its caller
EvalReturn ==
    /\ th.pc = "done"
    /\ last' = Call("evaluate", CallerRecord(th.input), th.out, th.input)
    /\ th' = Idle
    /\ UNCHANGED <<rules, clock, source, swaps, assigned, draw, metrics>>

\* set_rules(rs) on another thread: one attribute store
SetRulesConc ==
    \E rs \in ConcRuleSets :
        /\ swaps < MaxSwaps
        /\ swaps' = swaps + 1
        /\ rules' = RuleList(rs)
        /\ th' = IF th.pc \in {"loop", "step"}
                 THEN [th EXCEPT !.seen = th.seen \cup {RuleList(rs)}] ELSE th
        /\ UNCHANGED <<clock, source, last, assigned, draw, metrics>>

NextConc == EvalBegin \/ EvalIter \/ EvalStep \/ EvalReturn \/ SetRulesConc

SpecConc == InitWith({Mon1200}) /\ [][NextConc]_vars

\* C10: an evaluation that ran while set_rules replaced the rule set gives the
\* result of one of the rule sets that were active during the call, whole: the
\* result of the old set or of a new one, never of a mixture
C10_OneRuleSetPerEvaluation ==
    th.pc = "done" =>
        \E rs \in th.seen : th.out = evaluate(rs, th.input, clock)

\* set_rules ran after the loop had started, and the finished evaluation gives
\* the result of the replaced set, which differs from that of the new set
C10_Witness ==
    /\ th.pc = "done" /\ th.out.status = "return"
    /\ Cardinality(th.seen) >= 2
    /\ rules.kind = "list" /\ rules.items # th.iter
    /\ th.out = evaluate(RuleList(th.iter), th.input, clock)
    /\ th.out # evaluate(rules, th.input, clock)

-----------------------------------------------------------------------------
(* The condition evaluators on their own: RuleMatcher._apply_operator and    *)
(* models.Condition.evaluate applied to one operator and two operands        *)

\* the ten supported operators and one that is not
Operators == ValidOperators \cup {"between"}

Actuals ==
    {PyNone, PyInt(5), PyInt(7), PyHuge, PyStr(<<"5">>), PyStr(S_abc),
     PyList(<<PyInt(5), PyStr(S_abc)>>)}

Expecteds ==
    {PyNone, PyInt(5), PyHuge, PyStr(S_abc), PyStr(<<"(">>),
     PyList(<<PyInt(5), PyStr(S_abc)>>)}

Operands(op, actual, expected) == [op |-> op, actual |-> actual, expected |-> expected]

\* RuleMatcher._apply_operator(op, actual, expected)
ApplyOperator ==
    \E op \in Operators, actual \in Actuals, expected \in Expecteds :
        /\ last' = Call("_apply_operator", Operands(op, actual, expected),
                        _apply_operator(op, actual, expected), Unset)
        /\ UNCHANGED <<rules, clock, source, th, swaps, assigned, draw, metrics>>

\* Condition(field, op, value).evaluate(player) where player.field is actual
ConditionEvaluate ==
    \E op \in Operators, actual \in Actuals, expected \in Expecteds :
        /\ last' = Call("Condition.evaluate", Operands(op, actual, expected),
                        Condition_evaluate(op, actual, expected), Unset)
        /\ UNCHANGED <<rules, clock, source, th, swaps, assigned, draw, metrics>>

NextOps == ApplyOperator \/ ConditionEvaluate

SpecOps == InitWith({Mon1200}) /\ [][NextOps]_vars

\* one of the two condition evaluators was the last call
Applied == last.op \in {"_apply_operator", "Condition.evaluate"}

\* C12: on an actual value of None either condition evaluator returns False for
\* every operator, the unknown one included, whatever the expected value; ne
\* and not_in are False as well
C12_NullActualIsFalse ==
    (Applied /\ last.input.actual.t = "none") => last.out = "F"

\* ne was applied to None and an expected value other than None
C12_Witness ==
    /\ last.op = "_apply_operator" /\ last.input.actual.t = "none"
    /\ last.input.op = "ne" /\ last.input.expected = PyInt(5)
    /\ last.out = "F"

\* float(v) gives a number
Coerces(v) == ToFloat(v).ok

\* C13: for gt, gte, lt and lte on an actual value that is not None the
\* condition evaluator never raises; it returns False when an operand cannot
\* be coerced to a number, and otherwise compares the two numbers, strictly for
\* gt and lt, inclusively for gte and lte
C13_OrderingNeverRaises ==
    (/\ last.op = "_apply_operator" /\ last.input.op \in OrderingOps
     /\ last.input.actual.t # "none")
    => last.out =
          Res(/\ Coerces(last.input.actual) /\ Coerces(last.input.expected)
              /\ Compare(last.input.op, ToFloat(last.input.actual).n,
                         ToFloat(last.input.expected).n))

-----------------------------------------------------------------------------
(* The A/B gate and the bucket assignment on their own, between set_rules    *)
(* and evaluate calls.  assigned logs what _get_ab_bucket returned: the      *)
(* identifier, the bucket and the rule attribute of the matcher it was       *)
(* called on.                                                                *)

\* direct _get_ab_bucket calls logged in one behaviour
MaxLog == 2

Identifiers == {PyStr(<<"p","1">>), PyStr(<<"p","2">>), PyStr(<<"u","7">>), PyStr(<<>>)}

LoggedIdentifiers == {PyStr(<<"p","1">>), PyStr(<<"p","2">>)}

GateSpecs ==
    {NoBucket, BucketDict(PyInt(0)), BucketDict(PyInt(46)), BucketDict(PyInt(50)),
     BucketDict(PyInt(100))}

GateRuleSets == SeqsUpTo({R_ab}, MaxRules)

GatePlayers == {P_vip, P_gold}

\* RuleMatcher._within_ab_bucket(ab_bucket, player_id)
GateCheck ==
    \E ab \in GateSpecs, id \in Identifiers :
        /\ last' = Call("_within_ab_bucket", [ab_bucket |-> ab, player_id |-> id],
                        _within_ab_bucket(ab, id), Unset)
        /\ UNCHANGED <<rules, clock, source, th, swaps, assigned, draw, metrics>>

\* RuleMatcher._get_ab_bucket(player_id)
BucketOf ==
    \E id \in LoggedIdentifiers :
        /\ Cardinality(assigned) < MaxLog
        /\ last' = Call("_get_ab_bucket", id, _get_ab_bucket(id), Unset)
        /\ assigned' = assigned \cup {<<id, _get_ab_bucket(id).bucket, rules>>}
        /\ UNCHANGED <<rules, clock, source, th, swaps, draw, metrics>>

NextGate ==
    \/ GateCheck
    \/ BucketOf
    \/ SetRulesFrom(GateRuleSets)
    \/ EvaluateFrom(GatePlayers)

SpecGate == InitWith({Mon1200}) /\ [][NextGate]_vars

\* the bucket of an identifier and the percentage of a spec
BucketOfId(id) == Sha256Mod100(id.s) % 100

\* C15: for a string identifier the gate passes exactly when the rule has no
\* bucket spec or the bucket of the identifier is below the percentage; so
\* percentage 0 never passes, percentage 100 always passes and an identifier
\* whose bucket equals the percentage is excluded
C15_GatePassesBelowPercentage ==
    last.op = "_within_ab_bucket" =>
        LET ab == last.input.ab_bucket
            id == last.input.player_id
        IN /\ last.out \in {"T", "F"}
           /\ last.out = "T" <=> (ab = NoBucket \/ BucketOfId(id) < ab.percentage.n)
           /\ ab = BucketDict(PyInt(0)) => last.out = "F"
           /\ ab = BucketDict(PyInt(100)) => last.out = "T"
           /\ (ab # NoBucket /\ BucketOfId(id) = ab.percentage.n) => last.out = "F"

\* the gate was asked about an identifier whose bucket equals the percentage
C15_Witness ==
    /\ last.op = "_within_ab_bucket"
    /\ last.input.ab_bucket = BucketDict(PyInt(46))
    /\ BucketOfId(last.input.player_id) = 46
    /\ last.out = "F"

-----------------------------------------------------------------------------
(* Rules carrying weights: evaluate next to the weighted-selection routine   *)

R_heavy ==
    [Rule(<<"h","v","y">>, 10, Always, <<On("level", ValueCond(PyInt(10)))>>,
          Promo(Bonus(<<"h","v","y">>), S_credits, PyInt(80)))
        EXCEPT !.weight = PyInt(3)]

R_zero ==
    [Rule(<<"z","e","r","o">>, 10, Always, <<On("level", ValueCond(PyInt(10)))>>,
          Promo(Bonus(<<"z","e","r","o">>), S_credits, PyInt(20)))
        EXCEPT !.weight = PyInt(0)]

WeightedRules == {R_heavy, R_zero, R_default}

WeightRuleSets == SeqsUpTo(WeightedRules, MaxRules)

P_ten == Player(PyStr(<<"t","1">>), PyInt(10), Absent, Absent)

WeightPlayers == {P_ten, P_new, P_noid}

\* _apply_weighted_selection(candidates): random.uniform is read once when
\* the total weight is positive, and the generator moves on
WeightedSelect ==
    \E candidates \in WeightRuleSets, u \in 0..DrawSteps :
        /\ draw' = IF TotalWeight(candidates, 1) > 0 THEN u ELSE draw
        /\ last' = Call("select", P_empty, _apply_weighted_selection(candidates, draw'),
                        RuleList(candidates))
        /\ UNCHANGED <<rules, clock, source, th, swaps, assigned, metrics>>

NextWeight == SetRulesFrom(WeightRuleSets) \/ EvaluateFrom(WeightPlayers) \/ WeightedSelect

SpecWeight == InitWith({Mon1200}) /\ [][NextWeight]_vars

\* C21: evaluate is deterministic: for a fixed rule set, input record and clock
\* value it returns the same result whatever the random draws, and rules
\* carrying weights all appear in the result when they are applicable
C21_ResultIndependentOfDraws ==
    (Evaluated /\ last.out.status = "return") =>
        /\ \A i \in 1..Len(rules.items) :
              Applicable(rules.items[i], last.before, clock)
                  => InResult(rules.items[i].promotion)
        /\ last.out =
              LET ps == PromosOf(rules.items, ApplicableAt(rules.items, last.before, clock), 1)
              IN IF ps = <<>> THEN ReturnNone ELSE ReturnList(ps)

\* after a draw that would have selected the second rule, evaluate returned
\* the promotions of two applicable rules of different weights
C21_Witness ==
    /\ Evaluated /\ last.out.status = "return"
    /\ Len(rules.items) = 2
    /\ WeightOf(rules.items[1]).n # WeightOf(rules.items[2]).n
    /\ last.out.promos = <<rules.items[1].promotion, rules.items[2].promotion>>
    /\ _apply_weighted_selection(rules.items, draw) = ReturnRules(<<rules.items[2]>>)

\* the last call was the weighted selection
Selected == last.op = "select"

\* the cumulative weight of the first i candidates
RECURSIVE CumulativeWeight(_, _)
CumulativeWeight(rs, i) ==
    IF i = 0 THEN 0 ELSE CumulativeWeight(rs, i - 1) + WeightOf(rs[i]).n

\* C28: the weighted selection returns None when the total weight is <= 0
\* (the empty candidate list included); otherwise it returns a member of the
\* candidate list, the one whose cumulative-weight interval contains the
\* draw, and never a rule of weight 0
C28_SelectsByCumulativeWeight ==
    Selected =>
        LET rs == last.before.items
            total == CumulativeWeight(rs, Len(rs))
        IN IF total <= 0 THEN last.out = ReturnNone
           ELSE \E i \in 1..Len(rs) :
                   /\ last.out = ReturnRules(<<rs[i]>>)
                   /\ WeightOf(rs[i]).n # 0
                   /\ DrawSteps * CumulativeWeight(rs, i - 1) <= total * draw
                   /\ total * draw <= DrawSteps * CumulativeWeight(rs, i)

-----------------------------------------------------------------------------
(* MetricsCollector: every method runs under the collector's lock, so a call *)
(* is one step in every thread interleaving; an exception leaves the method  *)
(* and releases the lock                                                     *)

\* record_evaluation calls counted by one collector between two resets
MaxEvals == 3

\* calls of one error recorder between two resets
MaxErrors == 1

\* d[k] = d.get(k, 0) + 1
DictInc(d, k) ==
    [x \in DOMAIN d \cup {k} |-> IF x = k THEN (IF k \in DOMAIN d THEN d[k] ELSE 0) + 1
                                 ELSE d[x]]

\* a value that can be a dict key
Hashable(v) == v.t # "list"

\* MetricsCollector._update_latency_bucket(latency_ms)
_update_latency_bucket(latency_buckets, latency_ms) ==
    LET b == IF latency_ms < 10 THEN "0-10ms"
             ELSE IF latency_ms < 50 THEN "10-50ms"
             ELSE IF latency_ms < 100 THEN "50-100ms"
             ELSE IF latency_ms < 500 THEN "100-500ms"
             ELSE "500ms+"
    IN [latency_buckets EXCEPT ![b] = @ + 1]

\* datetime.utcnow().strftime('%Y-%m-%d-%H'), as the number of the hour in the
\* week, which orders the keys as the strings do
CurrentHour(now) == now.wd * 24 + now.h

HourStats(evaluations, hits, misses) ==
    [evaluations |-> evaluations, hits |-> hits, misses |-> misses]

\* MetricsCollector._update_hourly_stats(hit)
_update_hourly_stats(hourly_stats, hit, now) ==
    LET current_hour == CurrentHour(now)
        stats == IF current_hour \in DOMAIN hourly_stats THEN hourly_stats[current_hour]
                 ELSE HourStats(0, 0, 0)
        counted == HourStats(stats.evaluations + 1,
                             stats.hits + (IF hit THEN 1 ELSE 0),
                             stats.misses + (IF hit THEN 0 ELSE 1))
        updated == [h \in DOMAIN hourly_stats \cup {current_hour} |->
                        IF h = current_hour THEN counted ELSE hourly_stats[h]]
    IN IF Cardinality(DOMAIN updated) > 24
       THEN LET oldest_hour == CHOOSE h \in DOMAIN updated : \A g \in DOMAIN updated : h <= g
            IN [h \in DOMAIN updated \ {oldest_hour} |-> updated[h]]
       ELSE updated

\* MetricsCollector.record_evaluation on the collector m, statement by
\* statement: [exc, m], where a dict store on an unhashable key raises
\* TypeError and leaves what was written before it
record_evaluation(m, latency_ms, hit, rule_id, promotion_type, country, spend_tier, now) ==
    LET raised(c) == [exc |-> "TypeError", m |-> c]
        core == [m EXCEPT !.total_evaluations = @ + 1, !.total_latency_ms = @ + latency_ms]
        counted == IF hit THEN [core EXCEPT !.hits = @ + 1] ELSE [core EXCEPT !.misses = @ + 1]
        byRule == IF hit /\ Truthy(rule_id)
                  THEN [counted EXCEPT !.rule_hit_counts = DictInc(@, rule_id)] ELSE counted
        byType == IF hit /\ Truthy(promotion_type)
                  THEN [byRule EXCEPT !.promotion_type_counts = DictInc(@, promotion_type)]
                  ELSE byRule
        byCountry == IF Truthy(country)
                     THEN [byType EXCEPT !.country_distribution = DictInc(@, country)]
                     ELSE byType
        byTier == IF Truthy(spend_tier)
                  THEN [byCountry EXCEPT !.spend_tier_distribution = DictInc(@, spend_tier)]
                  ELSE byCountry
    IN IF hit /\ Truthy(rule_id) /\ ~Hashable(rule_id) THEN raised(counted)
       ELSE IF hit /\ Truthy(promotion_type) /\ ~Hashable(promotion_type) THEN raised(byRule)
       ELSE IF Truthy(country) /\ ~Hashable(country) THEN raised(byType)
       ELSE IF Truthy(spend_tier) /\ ~Hashable(spend_tier) THEN raised(byCountry)
       ELSE [exc |-> "",
             m |-> [byTier EXCEPT
                      !.latency_buckets = _update_latency_bucket(@, latency_ms),
                      !.hourly_stats = _update_hourly_stats(@, hit, now)]]

\* MetricsCollector.reset_metrics()
reset_metrics(m) == MetricsCollector

\* the latencies, in milliseconds, and the profile values the /evaluate
\* handler passes on: user_profile.get('country') of a JSON body is null, a
\* string or any other JSON value
Latencies == {5, 75, 900}

Countries == {PyNone, PyStr(S_US), PyList(<<PyStr(S_US)>>)}

Evaluation(latency_ms, hit, country) ==
    [latency_ms |-> latency_ms, hit |-> hit, country |-> country]

\* metrics.record_evaluation(...) as the /evaluate handler calls it: with the
\* id and type of the first promotion on a hit, without them on a miss
RecordEvaluation ==
    \E latency_ms \in Latencies, hit \in BOOLEAN, country \in Countries :
        LET r == record_evaluation(metrics, latency_ms, hit,
                                   IF hit THEN R_vip.promotion.id ELSE PyNone,
                                   IF hit THEN R_vip.promotion.type ELSE PyNone,
                                   country, PyNone, clock)
        IN /\ metrics.total_evaluations < MaxEvals
           /\ metrics' = r.m
           /\ last' = Call("record_evaluation", Evaluation(latency_ms, hit, country),
                           r.exc, Unset)
           /\ UNCHANGED <<rules, clock, source, th, swaps, assigned, draw>>

\* metrics.record_validation_error()
RecordValidationError ==
    /\ metrics.validation_errors < MaxErrors
    /\ metrics' = [metrics EXCEPT !.validation_errors = @ + 1]
    /\ last' = NoCall
    /\ UNCHANGED <<rules, clock, source, th, swaps, assigned, draw>>

\* metrics.record_evaluation_error()
RecordEvaluationError ==
    /\ metrics.evaluation_errors < MaxErrors
    /\ metrics' = [metrics EXCEPT !.evaluation_errors = @ + 1]
    /\ last' = NoCall
    /\ UNCHANGED <<rules, clock, source, th, swaps, assigned, draw>>

\* metrics.record_rule_loading_error()
RecordRuleLoadingError ==
    /\ metrics.rule_loading_errors < MaxErrors
    /\ metrics' = [metrics EXCEPT !.rule_loading_errors = @ + 1]
    /\ last' = NoCall
    /\ UNCHANGED <<rules, clock, source, th, swaps, assigned, draw>>

\* metrics.reset_metrics()
ResetMetrics ==
    /\ metrics' = reset_metrics(metrics)
    /\ last' = NoCall
    /\ UNCHANGED <<rules, clock, source, th, swaps, assigned, draw>>

NextMetrics ==
    \/ RecordEvaluation
    \/ RecordValidationError
    \/ RecordEvaluationError
    \/ RecordRuleLoadingError
    \/ ResetMetrics

SpecMetrics == InitWith({Mon1200}) /\ [][NextMetrics]_vars

\* the sum of the five latency-bucket counts
BucketTotal ==
    metrics.latency_buckets["0-10ms"] + metrics.latency_buckets["10-50ms"]
        + metrics.latency_buckets["50-100ms"] + metrics.latency_buckets["100-500ms"]
        + metrics.latency_buckets["500ms+"]

\* C30: after any sequence of record_evaluation, record_validation_error,
\* record_evaluation_error, record_rule_loading_error and reset_metrics calls,
\* in any interleaving, total_evaluations equals hits + misses and equals the
\* sum of the five latency-bucket counts
C30_CountsAgree ==
    /\ metrics.total_evaluations = metrics.hits + metrics.misses
    /\ metrics.total_evaluations = BucketTotal

====
